---- MODULE Spec2Model ----
(***************************************************************************)
(* Model of backend/python-rl: the request/response bridge of              *)
(* GameWebSocketServer (websocket_server.py), MinecraftHideSeekEnv          *)
(* (minecraft_env.py), the CheckpointManager and train of ppo_trainer.py   *)
(* and run_server_and_training of main.py.                                 *)
(*                                                                         *)
(* The bridge runs on one asyncio loop: every action below is one          *)
(* uninterrupted stretch of a coroutine between two suspension points.     *)
(***************************************************************************)
EXTENDS Integers, Sequences, FiniteSets, TLC

\* ------------------------------------------------------------------ bounds
NumCallers == 2     \* coroutines that may invoke reset_episode / step
MaxEvents == 4      \* connections accepted, frames sent by the peers and
                    \* reset_episode / step invocations in one behaviour, in all
MaxEpisode == 1     \* episode identifiers passed to reset_episode
MaxClock == 11      \* seconds a call's wait is followed for (past the deadline)
MaxKeep == 2        \* retention counts 0..MaxKeep given to the CheckpointManager
MaxIter == 3        \* iteration numbers 1..MaxIter passed to save_checkpoint
MaxSaves == 3       \* save_checkpoint calls in one behaviour
MaxStepLimit == 2   \* max_steps values 1..MaxStepLimit given to the environment
MaxResumeIter == 120  \* iterations 1..MaxResumeIter whose checkpoint is resumed from
MaxBatch == 4       \* train_batch_size values 1..MaxBatch of the configuration
MaxFreq == 2        \* checkpoint_freq values 1..MaxFreq of the configuration

\* -------------------------------------------------------- program constants
CALL_TIMEOUT == 10  \* asyncio.wait_for(..., timeout=10.0)
NAME_WIDTH == 6     \* f"checkpoint_{iteration:06d}"
TRAIN_KEEP_LAST_N == 10  \* CheckpointManager(checkpoint_dir, keep_last_n=10) in train

\* The clock advances in steps of half the call timeout.
TickSeconds == CALL_TIMEOUT \div 2

Callers == 1..NumCallers
Driver == 1         \* the training / demo loop, which awaits each call in turn
Handles == 1..MaxEvents
None == [none |-> TRUE]
TimeoutError == [error |-> "TimeoutError"]

VARIABLES
    websocket,            \* self.websocket: 0 is None, else a handle
    connected,            \* self.connected
    current_episode,      \* self.current_episode
    episode_active,       \* self.episode_active
    pending_observation,  \* self.pending_observation: None or the parsed frame
    observation_event,    \* self.observation_event (asyncio.Event) is set
    conn,                 \* per handle: "none", "open" (handler in its loop), "closed"
    inbox,                \* per handle: frames received and not yet iterated
    received,             \* per handle: id of the last command the peer has received
    call,                 \* per caller: the coroutine running reset_episode / step
    calls,                \* invocations so far
    frames,               \* frames sent by the peers so far
    stored,               \* frames handle_message stored since the last clear at a call's start
    timedOut,             \* ids of the calls that ended with TimeoutError
    keep_last_n,          \* self.keep_last_n
    checkpoint_history,   \* self.checkpoint_history
    manager,              \* "ready", or "failed" when the constructor raised
    disk,                 \* per checkpoint directory name: what is on disk
    index_file,           \* checkpoint_index.json
    saves,                \* save_checkpoint calls so far (the clock of datetime.now())
    saved,                \* iterations of the save_checkpoint calls that returned
    lastSave,             \* the last save_checkpoint call and how it ended
    returned,             \* the last read accessor called since the last save or
                          \* construction, its argument and its result
    env_current_episode,  \* MinecraftHideSeekEnv.current_episode
    current_step,         \* MinecraftHideSeekEnv.current_step
    max_steps,            \* MinecraftHideSeekEnv.max_steps
    env_calls,            \* the reset / step invocations of the environment, in order
    restore_checkpoint,   \* train's restore_checkpoint argument (its last path component)
    start_iteration,      \* train's start_iteration
    train_pc,             \* train: "not_called", "loop" (at the head of its for
                          \* loop), "returned" or "raised"
    train_error,          \* the exception train raised ("none": none)
    train_iteration,      \* train's loop variable iteration (0: not yet bound)
    training_iterations,  \* train's training_iterations
    checkpoint_freq,      \* train's checkpoint_freq
    episode_len_mean,     \* whether train's local episode_len_mean is bound
    train_saved,          \* iterations train has passed to save_checkpoint, in order
    train_loaded,         \* iterations of the records train's manager loaded
    main_pc,              \* run_server_and_training: "polling", "settling",
                          \* "train", "awaiting" (the cancelled task), "returned", "raised"
    server_task           \* the task of start_server: "running", "cancelling", "cancelled"

bridgeVars == <<websocket, connected, current_episode, episode_active,
                pending_observation, observation_event, conn, inbox, received,
                call, calls, frames, stored, timedOut>>

ckptVars == <<keep_last_n, checkpoint_history, manager, disk, index_file,
              saves, saved, lastSave, returned>>

envVars == <<env_current_episode, current_step, max_steps, env_calls>>

loopVars == <<train_pc, train_error, train_iteration, training_iterations,
              checkpoint_freq, episode_len_mean, train_saved, train_loaded>>

trainVars == <<restore_checkpoint, start_iteration, loopVars>>

mainVars == <<main_pc, server_task>>

vars == <<bridgeVars, ckptVars, envVars, trainVars, mainVars>>

\* ------------------------------------------------------------------ frames
\* What handle_message can tell apart in message_str: whether it parses as
\* JSON, its "type", its "agents" entry ("bad": a list whose items are not
\* objects), whether it has "episode_done" and, if so, its value ("done").
Shapes ==
    { [json |-> FALSE, type |-> "",            agents |-> "absent", episode_done |-> FALSE, done |-> FALSE],
      [json |-> TRUE,  type |-> "observation", agents |-> "list",   episode_done |-> TRUE,  done |-> FALSE],
      [json |-> TRUE,  type |-> "observation", agents |-> "list",   episode_done |-> TRUE,  done |-> TRUE],
      [json |-> TRUE,  type |-> "observation", agents |-> "absent", episode_done |-> TRUE,  done |-> FALSE],
      [json |-> TRUE,  type |-> "observation", agents |-> "list",   episode_done |-> FALSE, done |-> FALSE],
      [json |-> TRUE,  type |-> "observation", agents |-> "bad",    episode_done |-> TRUE,  done |-> FALSE],
      [json |-> TRUE,  type |-> "pong",        agents |-> "absent", episode_done |-> FALSE, done |-> FALSE] }

\* A frame: its shape, the command it replies to (the last one its sender had
\* received; 0: none) and its serial number.
Frame(s, re, n) == [shape |-> s, re |-> re, n |-> n]

IsFrame(x) == "shape" \in DOMAIN x

\* Connections accepted, frames sent and calls invoked so far.
Events == Cardinality({h \in Handles : conn[h] # "none"}) + frames + calls

\* ----------------------------------------------------------------- callers
IdleCall == [pc |-> "idle", kind |-> "none", id |-> 0, episode |-> 0,
             elapsed |-> 0, woken |-> FALSE, result |-> None,
             send |-> "none", sentTo |-> 0, sent |-> 0, dropped |-> FALSE]

BridgeInit ==
    /\ websocket = 0
    /\ connected = FALSE
    /\ current_episode = 0
    /\ episode_active = FALSE
    /\ pending_observation = None
    /\ observation_event = FALSE
    /\ conn = [h \in Handles |-> "none"]
    /\ inbox = [h \in Handles |-> <<>>]
    /\ received = [h \in Handles |-> 0]
    /\ call = [c \in Callers |-> IdleCall]
    /\ calls = 0
    /\ frames = 0
    /\ stored = <<>>
    /\ timedOut = {}

\* ------------------------------------------------------ connection manager
\* handle_connection, up to its first suspension in "async for".
HandleConnection(h) ==
    /\ conn[h] = "none"
    /\ \A g \in Handles : g < h => conn[g] # "none"
    /\ Events < MaxEvents
    /\ websocket' = h
    /\ connected' = TRUE
    /\ conn' = [conn EXCEPT ![h] = "open"]
    /\ UNCHANGED <<current_episode, episode_active, pending_observation,
                   observation_event, inbox, received, call, calls, frames,
                   stored, timedOut>>
    /\ UNCHANGED <<ckptVars, envVars, trainVars, mainVars>>

\* The peer of an open connection sends a frame.
PeerSend(h) ==
    /\ conn[h] = "open"
    /\ Events < MaxEvents
    /\ \E s \in Shapes :
          inbox' = [inbox EXCEPT ![h] = Append(@, Frame(s, received[h], frames + 1))]
    /\ frames' = frames + 1
    /\ UNCHANGED <<websocket, connected, current_episode, episode_active,
                   pending_observation, observation_event, conn, received,
                   call, calls, stored, timedOut>>
    /\ UNCHANGED <<ckptVars, envVars, trainVars, mainVars>>

\* The try-block of handle_message: what it does with one frame.
HandledAs(f) ==
    IF ~f.shape.json THEN "JSONDecodeError"
    ELSE IF f.shape.type = "observation"
         THEN IF f.shape.agents = "bad" THEN "Exception" ELSE "store"
         ELSE "log"

\* One turn of "async for message in websocket: await self.handle_message(message)".
HandleMessage(h) ==
    /\ conn[h] = "open"
    /\ inbox[h] # <<>>
    /\ LET f == Head(inbox[h]) IN
          IF HandledAs(f) = "store"
          THEN /\ pending_observation' = f
               /\ observation_event' = TRUE
               /\ call' = [c \in Callers |->
                             IF call[c].pc = "waiting"
                             THEN [call[c] EXCEPT !.woken = TRUE]
                             ELSE call[c]]
               /\ stored' = Append(stored, f)
          ELSE UNCHANGED <<pending_observation, observation_event, call, stored>>
    /\ inbox' = [inbox EXCEPT ![h] = Tail(@)]
    /\ UNCHANGED <<websocket, connected, current_episode, episode_active,
                   conn, received, calls, frames, timedOut>>
    /\ UNCHANGED <<ckptVars, envVars, trainVars, mainVars>>

\* The handler of connection h leaves its loop: "error" is ConnectionClosed,
\* "exception" any other exception, "clean" the normal end of the iteration.
ConnectionEnds(h, how) ==
    /\ conn[h] = "open"
    /\ conn' = [conn EXCEPT ![h] = "closed"]
    /\ inbox' = [inbox EXCEPT ![h] = <<>>]
    /\ IF how \in {"error", "exception"}
       THEN /\ connected' = FALSE
            /\ websocket' = 0
       ELSE UNCHANGED <<connected, websocket>>
    /\ call' = [c \in Callers |->
                  IF call[c].pc = "waiting" /\ call[c].sentTo = h
                  THEN [call[c] EXCEPT !.dropped = TRUE]
                  ELSE call[c]]
    /\ UNCHANGED <<current_episode, episode_active, pending_observation,
                   observation_event, received, calls, frames, stored, timedOut>>
    /\ UNCHANGED <<ckptVars, envVars, trainVars, mainVars>>

\* close(): closes the handle it holds, whose handler then ends cleanly.
Close ==
    /\ IF websocket # 0 /\ conn[websocket] = "open"
       THEN /\ conn' = [conn EXCEPT ![websocket] = "closed"]
            /\ inbox' = [inbox EXCEPT ![websocket] = <<>>]
       ELSE UNCHANGED <<conn, inbox>>
    /\ connected' = FALSE
    /\ UNCHANGED <<websocket, current_episode, episode_active,
                   pending_observation, observation_event, received, call,
                   calls, frames, stored, timedOut>>
    /\ UNCHANGED <<ckptVars, envVars, trainVars, mainVars>>

\* ------------------------------------------------------------------ bridge
\* As CallStart, the slot and the event left as they are.
CallStartKeeping(c, kind, episode) ==
    /\ call[c].pc = "idle"
    /\ Events < MaxEvents
    /\ calls' = calls + 1
    /\ call' = [call EXCEPT ![c] =
                  [IdleCall EXCEPT !.pc = "sending", !.kind = kind,
                                   !.id = calls + 1, !.episode = episode]]
    /\ stored' = <<>>
    /\ UNCHANGED <<websocket, connected, current_episode, episode_active,
                   pending_observation, observation_event,
                   conn, inbox, received, frames, timedOut>>
    /\ UNCHANGED <<ckptVars, trainVars, mainVars>>

\* reset_episode / step, first two statements: clear the slot. The variables
\* of the environment are the invoker's to set.
CallStart(c, kind, episode) ==
    /\ call[c].pc = "idle"
    /\ Events < MaxEvents
    /\ pending_observation' = None
    /\ observation_event' = FALSE
    /\ calls' = calls + 1
    /\ call' = [call EXCEPT ![c] =
                  [IdleCall EXCEPT !.pc = "sending", !.kind = kind,
                                   !.id = calls + 1, !.episode = episode]]
    /\ stored' = <<>>
    /\ UNCHANGED <<websocket, connected, current_episode, episode_active,
                   conn, inbox, received, frames, timedOut>>
    /\ UNCHANGED <<ckptVars, trainVars, mainVars>>

\* send_message: the outcome of one send.
SendOutcome ==
    IF connected /\ websocket # 0
    THEN IF conn[websocket] = "open" THEN "delivered" ELSE "send_error"
    ELSE "not_connected"

\* "await self.send_message(...)", then the start of wait_for(event.wait()).
CallSend(c) ==
    /\ call[c].pc = "sending"
    /\ LET out == SendOutcome IN
          /\ received' = IF out = "delivered"
                         THEN [received EXCEPT ![websocket] = call[c].id]
                         ELSE received
          /\ call' = [call EXCEPT ![c].pc = "waiting",
                                  ![c].send = out,
                                  ![c].sentTo = IF out = "delivered" THEN websocket ELSE 0,
                                  ![c].sent = IF out = "delivered" THEN @ + 1 ELSE @,
                                  ![c].elapsed = 0,
                                  ![c].woken = observation_event]
    /\ UNCHANGED <<websocket, connected, current_episode, episode_active,
                   pending_observation, observation_event, conn, inbox,
                   calls, frames, stored, timedOut>>
    /\ UNCHANGED <<ckptVars, envVars, trainVars, mainVars>>

\* A deadline that comes one clock step late.
DeadlineDueLate(c) == call[c].elapsed > CALL_TIMEOUT

\* A wait without a deadline.
DeadlineNever(c) == FALSE

\* wait_for(..., timeout=10.0): the deadline of caller c has come.
DeadlineDue(c) == call[c].elapsed >= CALL_TIMEOUT

\* Time passes while every waiting caller is still suspended.
Tick ==
    /\ \E c \in Callers : call[c].pc = "waiting"
    /\ \A c \in Callers :
          call[c].pc = "waiting" =>
             /\ ~call[c].woken
             /\ ~DeadlineDue(c)
             /\ call[c].elapsed < MaxClock
    /\ call' = [c \in Callers |->
                  IF call[c].pc = "waiting"
                  THEN [call[c] EXCEPT !.elapsed = @ + TickSeconds]
                  ELSE call[c]]
    /\ UNCHANGED <<websocket, connected, current_episode, episode_active,
                   pending_observation, observation_event, conn, inbox,
                   received, calls, frames, stored, timedOut>>
    /\ UNCHANGED <<ckptVars, envVars, trainVars, mainVars>>

\* As CallReturn, a reset leaving the episode unmarked.
CallReturnUnmarked(c) ==
    /\ call[c].pc = "waiting"
    /\ call[c].woken
    /\ call' = [call EXCEPT ![c].pc = "idle",
                            ![c].result = pending_observation,
                            ![c].woken = FALSE]
    /\ pending_observation' = None
    /\ observation_event' = FALSE
    /\ UNCHANGED <<websocket, connected, current_episode, episode_active,
                   conn, inbox, received, calls, frames, stored, timedOut>>
    /\ UNCHANGED <<ckptVars, envVars, trainVars, mainVars>>

\* The wait returned: take the slot, clear it, return its content.
CallReturn(c) ==
    /\ call[c].pc = "waiting"
    /\ call[c].woken
    /\ call' = [call EXCEPT ![c].pc = "idle",
                            ![c].result = pending_observation,
                            ![c].woken = FALSE]
    /\ pending_observation' = None
    /\ observation_event' = FALSE
    /\ IF call[c].kind = "reset"
       THEN /\ episode_active' = TRUE
            /\ current_episode' = call[c].episode
       ELSE UNCHANGED <<episode_active, current_episode>>
    /\ UNCHANGED <<websocket, connected, conn, inbox, received, calls,
                   frames, stored, timedOut>>
    /\ UNCHANGED <<ckptVars, envVars, trainVars, mainVars>>

\* As CallTimeout, the command sent again and awaited again at the deadline.
CallTimeoutRetry(c) ==
    /\ call[c].pc = "waiting"
    /\ ~call[c].woken
    /\ DeadlineDue(c)
    /\ call' = [call EXCEPT ![c].pc = "sending"]
    /\ timedOut' = timedOut \cup {call[c].id}
    /\ UNCHANGED <<websocket, connected, current_episode, episode_active,
                   pending_observation, observation_event, conn, inbox,
                   received, calls, frames, stored>>
    /\ UNCHANGED <<ckptVars, envVars, trainVars, mainVars>>

\* As CallTimeout, a reset marking its episode active all the same.
CallTimeoutMarking(c) ==
    /\ call[c].pc = "waiting"
    /\ ~call[c].woken
    /\ DeadlineDue(c)
    /\ call' = [call EXCEPT ![c].pc = "idle", ![c].result = TimeoutError]
    /\ timedOut' = timedOut \cup {call[c].id}
    /\ IF call[c].kind = "reset"
       THEN /\ episode_active' = TRUE
            /\ current_episode' = call[c].episode
       ELSE UNCHANGED <<episode_active, current_episode>>
    /\ UNCHANGED <<websocket, connected,
                   pending_observation, observation_event, conn, inbox,
                   received, calls, frames, stored>>
    /\ UNCHANGED <<ckptVars, envVars, trainVars, mainVars>>

\* wait_for raises TimeoutError: the statements after it are skipped.
CallTimeout(c) ==
    /\ call[c].pc = "waiting"
    /\ ~call[c].woken
    /\ DeadlineDue(c)
    /\ call' = [call EXCEPT ![c].pc = "idle", ![c].result = TimeoutError]
    /\ timedOut' = timedOut \cup {call[c].id}
    /\ UNCHANGED <<websocket, connected, current_episode, episode_active,
                   pending_observation, observation_event, conn, inbox,
                   received, calls, frames, stored>>
    /\ UNCHANGED <<ckptVars, envVars, trainVars, mainVars>>

\* ------------------------------------------------------------ environment
\* MinecraftHideSeekEnv.__init__ with environment.max_steps = n.
EnvInit(n) ==
    /\ env_current_episode = 0
    /\ current_step = 0
    /\ max_steps = n
    /\ env_calls = <<>>

\* MinecraftHideSeekEnv.reset, up to the first statements of reset_episode.
EnvReset(c) ==
    /\ env_current_episode' = env_current_episode + 1
    /\ current_step' = 0
    /\ env_calls' = Append(env_calls, "reset")
    /\ UNCHANGED max_steps
    /\ CallStart(c, "reset", env_current_episode + 1)

\* MinecraftHideSeekEnv.step, up to the first statements of server.step.
EnvStep(c) ==
    /\ current_step' = current_step + 1
    /\ env_calls' = Append(env_calls, "step")
    /\ UNCHANGED <<env_current_episode, max_steps>>
    /\ CallStart(c, "step", 0)

\* As EnvOutcome, the step limit taken as passed only when exceeded.
EnvOutcomeExceeded(c) ==
    LET data == call[c].result IN
    IF ~IsFrame(data) THEN data
    ELSE IF call[c].kind = "reset" THEN [observations |-> data]
    ELSE [terminated |-> data.shape.episode_done /\ data.shape.done,
          truncated |-> current_step > max_steps]

\* What MinecraftHideSeekEnv.reset / step hands to its invoker once the bridge
\* call has ended: the exception of the bridge call, which nothing catches, or
\* for reset the observations and for step the "__all__" flags: terminated is
\* step_data.get('episode_done', False), truncated is current_step >= max_steps.
EnvOutcome(c) ==
    LET data == call[c].result IN
    IF ~IsFrame(data) THEN data
    ELSE IF call[c].kind = "reset" THEN [observations |-> data]
    ELSE [terminated |-> data.shape.episode_done /\ data.shape.done,
          truncated |-> current_step >= max_steps]

\* ------------------------------------------------------ checkpoint manager
RECURSIVE Digits(_)
\* The decimal digits of n, most significant first.
Digits(n) == IF n < 10 THEN <<n>> ELSE Append(Digits(n \div 10), n % 10)

RECURSIVE ZeroPad(_, _)
\* d padded with zeros on the left to at least w digits.
ZeroPad(d, w) == IF Len(d) >= w THEN d ELSE ZeroPad(<<0>> \o d, w)

\* f"checkpoint_{iteration:06d}", as the digits that follow "checkpoint_".
CheckpointName(iteration) == ZeroPad(Digits(iteration), NAME_WIDTH)

Iterations == 1..MaxIter
Names == {CheckpointName(i) : i \in Iterations}

DigitChars == <<"0", "1", "2", "3", "4", "5", "6", "7", "8", "9">>

\* The literal text "checkpoint_" of the directory name, character by character.
NamePrefix == <<"c", "h", "e", "c", "k", "p", "o", "i", "n", "t", "_">>

\* The directory name as a string: "checkpoint_" followed by the digits d.
DirName(d) == NamePrefix \o [k \in 1..Len(d) |-> DigitChars[d[k] + 1]]

\* sub in s: some slice of s equals sub.
Contains(s, sub) ==
    \E k \in 0..(Len(s) - Len(sub)) : SubSeq(s, k + 1, k + Len(sub)) = sub

RECURSIVE Split(_, _)
\* s.split(sep) for a one-character separator: the fields between separators.
Split(s, sep) ==
    IF \A k \in DOMAIN s : s[k] # sep THEN <<s>>
    ELSE LET k == CHOOSE j \in DOMAIN s :
                      s[j] = sep /\ \A m \in 1..(j - 1) : s[m] # sep
         IN  <<SubSeq(s, 1, k - 1)>> \o Split(SubSeq(s, k + 1, Len(s)), sep)

\* int(s) returns for a non-empty string of decimal digits; it raises
\* ValueError for the empty string and for any other character met here.
IntParses(s) ==
    /\ s # <<>>
    /\ \A k \in DOMAIN s : \E v \in DOMAIN DigitChars : DigitChars[v] = s[k]

RECURSIVE IntOf(_)
\* int(s) for a string of decimal digits; leading zeros do not count.
IntOf(s) ==
    IF s = <<>> THEN 0
    ELSE 10 * IntOf(SubSeq(s, 1, Len(s) - 1))
         + (CHOOSE v \in 0..9 : DigitChars[v + 1] = s[Len(s)])

Absent == [kind |-> "absent"]
Corrupt == [kind |-> "corrupt"]      \* a file cut short by a failed write
NoDir == [state |-> "absent", metadata |-> Absent]
NoSave == [iteration |-> 0, timestamp |-> 0, outcome |-> "none"]
NoRead == [accessor |-> "none", iteration |-> 0, value |-> [path |-> <<>>]]

\* __init__ on an empty checkpoint root.
CkptInit(n) ==
    /\ keep_last_n = n
    /\ checkpoint_history = <<>>
    /\ manager = "ready"
    /\ disk = [name \in Names |-> NoDir]
    /\ index_file = Absent
    /\ saves = 0
    /\ saved = <<>>
    /\ lastSave = NoSave
    /\ returned = NoRead

\* trainer.save(checkpoint_path): the trainer state is written into the directory.
StateWrite(d, name, ok) ==
    [d EXCEPT ![name].state = IF ok THEN "written" ELSE "partial"]

\* A save that writes no metadata.json.
MetadataWriteSkipped(d, name, meta, ok) == d

\* metadata.json is opened for writing and the metadata dumped into it.
MetadataWrite(d, name, meta, ok) ==
    [d EXCEPT ![name].metadata = IF ok THEN meta ELSE Corrupt]

\* An index written without the newest record.
IndexOfStale(hist) ==
    [kind |-> "json",
     checkpoints |-> IF hist = <<>> THEN hist ELSE SubSeq(hist, 1, Len(hist) - 1)]

\* _save_checkpoint_index: the content written to checkpoint_index.json.
IndexOf(hist) == [kind |-> "json", checkpoints |-> hist]

\* _cleanup_old_checkpoints: checkpoint_history[:-keep_last_n]
ToDelete(hist) ==
    IF Len(hist) <= keep_last_n THEN <<>>
    ELSE SubSeq(hist, 1, Len(hist) - keep_last_n)

\* _cleanup_old_checkpoints: checkpoint_history[-keep_last_n:]
Kept(hist) ==
    IF Len(hist) <= keep_last_n THEN hist
    ELSE SubSeq(hist, Len(hist) - keep_last_n + 1, Len(hist))

\* _cleanup_old_checkpoints: shutil.rmtree of every listed directory that exists.
Rmtree(d, recs) ==
    [name \in DOMAIN d |->
        IF \E k \in DOMAIN recs : recs[k].path = name THEN NoDir ELSE d[name]]

\* A save that runs the cleanup whatever keep_last_n.
CleanupAlways == TRUE

\* save_checkpoint: "if self.keep_last_n > 0", the cleanup is called.
CleanupRuns == keep_last_n > 0

FailPoints == {"none", "state", "metadata", "index", "cleanup_index"}

\* save_checkpoint(trainer, iteration, metrics), with the cleanup it calls.
\* failAt is the statement that raises ("none": the call returns); torn says
\* whether the failing write had already cut the file short. The variables of
\* train are the invoker's to set.
SaveCheckpoint(iteration, failAt, torn) ==
    /\ manager = "ready"
    /\ saves < MaxSaves
    /\ failAt = "none" => ~torn
    /\ LET name == CheckpointName(iteration)
           ts == saves + 1
           meta == [kind |-> "json", iteration |-> iteration, timestamp |-> ts]
           rec == [iteration |-> iteration, path |-> name, timestamp |-> ts]
           d1 == StateWrite(disk, name, TRUE)
           d2 == MetadataWrite(d1, name, meta, TRUE)
           h1 == Append(checkpoint_history, rec)
           cleanup == CleanupRuns /\ Len(h1) > keep_last_n
           d3 == IF cleanup THEN Rmtree(d2, ToDelete(h1)) ELSE d2
           h2 == IF cleanup THEN Kept(h1) ELSE h1
       IN  /\ failAt = "cleanup_index" => cleanup
           /\ disk' = CASE failAt = "state" ->
                               IF torn THEN StateWrite(disk, name, FALSE) ELSE disk
                         [] failAt = "metadata" ->
                               IF torn THEN MetadataWrite(d1, name, meta, FALSE) ELSE d1
                         [] failAt = "index" -> d2
                         [] OTHER -> d3
           /\ checkpoint_history' =
                    CASE failAt \in {"state", "metadata"} -> checkpoint_history
                      [] failAt = "index" -> h1
                      [] OTHER -> h2
           /\ index_file' =
                    CASE failAt \in {"state", "metadata"} -> index_file
                      [] failAt = "index" -> IF torn THEN Corrupt ELSE index_file
                      [] failAt = "cleanup_index" -> IF torn THEN Corrupt ELSE IndexOf(h1)
                      [] OTHER -> IndexOf(h2)
           /\ saved' = IF failAt = "none" THEN Append(saved, iteration) ELSE saved
           /\ lastSave' = [iteration |-> iteration, timestamp |-> ts, outcome |-> failAt]
    /\ saves' = saves + 1
    /\ returned' = NoRead
    /\ UNCHANGED <<keep_last_n, manager>>
    /\ UNCHANGED <<bridgeVars, envVars, mainVars>>

\* A new CheckpointManager on the same root: __init__ and _load_checkpoint_index.
\* The variables of train are the invoker's to set.
Restart ==
    /\ checkpoint_history' = IF index_file.kind = "json"
                             THEN index_file.checkpoints ELSE <<>>
    /\ manager' = IF index_file.kind = "corrupt" THEN "failed" ELSE "ready"
    /\ lastSave' = NoSave
    /\ returned' = NoRead
    /\ UNCHANGED <<keep_last_n, disk, index_file, saves, saved>>
    /\ UNCHANGED <<bridgeVars, envVars, mainVars>>

\* None, as a path.
NoPath == <<>>

\* get_latest_checkpoint(): the directory the last record of the index names.
get_latest_checkpoint ==
    IF checkpoint_history = <<>> THEN NoPath
    ELSE checkpoint_history[Len(checkpoint_history)].path

\* get_checkpoint_by_iteration(iteration): the directory of the first record
\* with that iteration.
get_checkpoint_by_iteration(iteration) ==
    LET found == SelectSeq(checkpoint_history, LAMBDA cp : cp.iteration = iteration)
    IN  IF found = <<>> THEN NoPath ELSE found[1].path

\* list_checkpoints(): for every record of the index its metadata.json when
\* that file exists, else the record itself; json.load raises on a file cut
\* short ("error").
list_checkpoints ==
    IF \E k \in DOMAIN checkpoint_history :
           disk[checkpoint_history[k].path].metadata.kind = "corrupt"
    THEN [kind |-> "error", entries |-> <<>>]
    ELSE [kind |-> "list",
          entries |-> [k \in DOMAIN checkpoint_history |->
                         LET cp_info == checkpoint_history[k]
                             metadata == disk[cp_info.path].metadata
                         IN  IF metadata.kind = "json"
                             THEN [iteration |-> metadata.iteration,
                                   path |-> CheckpointName(metadata.iteration)]
                             ELSE [iteration |-> cp_info.iteration,
                                   path |-> cp_info.path]]]

\* a sorts before b, character by character: at the first difference a has
\* the smaller character, or a is a proper prefix of b.
LexLess(a, b) ==
    \/ \E k \in DOMAIN a \cap DOMAIN b :
          /\ \A m \in 1..(k - 1) : a[m] = b[m]
          /\ a[k] < b[k]
    \/ /\ Len(a) < Len(b)
       /\ \A m \in DOMAIN a : a[m] = b[m]

\* The characters of the directory names, in the order of their code points.
Alphabet == DigitChars \o <<"_", "c", "e", "h", "i", "k", "n", "o", "p", "t">>

\* The string s as the positions of its characters in Alphabet.
Codes(s) == [k \in DOMAIN s |-> CHOOSE v \in DOMAIN Alphabet : Alphabet[v] = s[k]]

\* s < t for two strings.
StrLess(s, t) == LexLess(Codes(s), Codes(t))

RECURSIVE Sorted(_)
\* sorted(...) of a set of directory names.
Sorted(S) ==
    IF S = {} THEN <<>>
    ELSE LET least == CHOOSE a \in S : \A b \in S \ {a} : LexLess(a, b)
         IN  <<least>> \o Sorted(S \ {least})

\* select_checkpoint's fallback: every directory matching checkpoint_* whose
\* name yields an iteration, in sorted order.
ScanDirectory ==
    LET dirs == Sorted({name \in DOMAIN disk : disk[name].state # "absent"})
        Named(name) == IntParses(Split(DirName(name), "_")[2])
    IN  [k \in DOMAIN SelectSeq(dirs, Named) |->
            LET name == SelectSeq(dirs, Named)[k]
            IN  [iteration |-> IntOf(Split(DirName(name), "_")[2]), path |-> name]]

\* select_checkpoint: the checkpoints offered, from the index file when it
\* exists (json.load raises on a file cut short), else from the scan.
select_checkpoint ==
    CASE index_file.kind = "json" -> [kind |-> "list", entries |-> index_file.checkpoints]
      [] index_file.kind = "corrupt" -> [kind |-> "error", entries |-> <<>>]
      [] OTHER -> [kind |-> "list", entries |-> ScanDirectory]

Accessors == {"get_latest_checkpoint", "get_checkpoint_by_iteration", "list_checkpoints"}

\* An accessor that drops the record it returns.
ReadAccessorDropping(accessor, iteration) ==
    /\ manager = "ready"
    /\ accessor # "get_checkpoint_by_iteration" => iteration = 0
    /\ returned' = [accessor |-> accessor, iteration |-> iteration,
                    value |-> [path |-> get_latest_checkpoint]]
    /\ checkpoint_history' = IF checkpoint_history = <<>> THEN <<>>
                             ELSE SubSeq(checkpoint_history, 1, Len(checkpoint_history) - 1)
    /\ UNCHANGED <<keep_last_n, manager, disk, index_file, saves, saved, lastSave>>
    /\ UNCHANGED <<bridgeVars, envVars, trainVars, mainVars>>

\* A call of get_latest_checkpoint(), get_checkpoint_by_iteration(iteration)
\* or list_checkpoints() on the manager.
ReadAccessor(accessor, iteration) ==
    /\ manager = "ready"
    /\ accessor # "get_checkpoint_by_iteration" => iteration = 0
    /\ returned' =
          [accessor |-> accessor, iteration |-> iteration,
           value |-> CASE accessor = "get_latest_checkpoint" ->
                              [path |-> get_latest_checkpoint]
                       [] accessor = "get_checkpoint_by_iteration" ->
                              [path |-> get_checkpoint_by_iteration(iteration)]
                       [] OTHER -> list_checkpoints]
    /\ UNCHANGED <<keep_last_n, checkpoint_history, manager, disk, index_file,
                   saves, saved, lastSave>>
    /\ UNCHANGED <<bridgeVars, envVars, trainVars, mainVars>>

\* ----------------------------------------------------------------- train
TrainInit ==
    /\ restore_checkpoint = NoPath
    /\ start_iteration = 1
    /\ train_pc = "not_called"
    /\ train_error = "none"
    /\ train_iteration = 0
    /\ training_iterations = 0
    /\ checkpoint_freq = 0
    /\ episode_len_mean = "unbound"
    /\ train_saved = <<>>
    /\ train_loaded = {}

\* Training that numbers its iterations from 1 whatever it restores.
StartIterationFresh(restore) == 1

\* train: start_iteration, from the last component of restore_checkpoint.
StartIteration(restore) ==
    IF restore # NoPath /\ Contains(restore, NamePrefix)
    THEN LET field == Split(restore, "_")[2]
         IN  IF IntParses(field) THEN IntOf(field) + 1 ELSE 1
    ELSE 1

\* train(config, restore_checkpoint=restore), up to the training loop.
TrainStart(restore) ==
    /\ restore_checkpoint' = restore
    /\ start_iteration' = StartIteration(restore)
    /\ UNCHANGED <<bridgeVars, ckptVars, envVars, loopVars, mainVars>>

\* train: training_iterations, total_episodes // episodes_per_iteration and
\* one more when the division leaves a remainder.
TrainingIterations(total_episodes, episodes_per_iteration) ==
    IF total_episodes % episodes_per_iteration # 0
    THEN total_episodes \div episodes_per_iteration + 1
    ELSE total_episodes \div episodes_per_iteration

\* train(config, restore_checkpoint=restore) in a new process, up to its for
\* loop: the trainer is created (and restored), the CheckpointManager is
\* constructed on the checkpoint root, training_iterations and start_iteration
\* are computed. An index file cut short makes json.load raise, a batch
\* smaller than max_steps makes the division raise; both are outside the try.
TrainBegin(restore, total_episodes, train_batch_size, freq) ==
    /\ train_pc # "loop"
    /\ Restart
    /\ LET episodes_per_iteration == train_batch_size \div max_steps
           error == CASE index_file.kind = "corrupt" -> "JSONDecodeError"
                      [] episodes_per_iteration = 0 -> "ZeroDivisionError"
                      [] OTHER -> "none"
       IN  /\ train_error' = error
           /\ train_pc' = IF error = "none" THEN "loop" ELSE "raised"
           /\ training_iterations' =
                  IF error = "none"
                  THEN TrainingIterations(total_episodes, episodes_per_iteration)
                  ELSE 0
           /\ start_iteration' = IF error = "none" THEN StartIteration(restore) ELSE 1
    /\ restore_checkpoint' = restore
    /\ checkpoint_freq' = freq
    /\ train_iteration' = 0
    /\ episode_len_mean' = "unbound"
    /\ train_saved' = <<>>
    /\ train_loaded' = {checkpoint_history'[k].iteration : k \in DOMAIN checkpoint_history'}

\* range(start_iteration, training_iterations + 1): the value the for loop
\* binds next.
NextIteration == IF train_iteration = 0 THEN start_iteration ELSE train_iteration + 1

\* train: "if iteration % checkpoint_freq == 0", the periodic save.
SaveDue(i) == i % checkpoint_freq = 0

\* train: the final save reads episode_len_mean, which only the loop body
\* binds; unbound, the read raises UnboundLocalError.
FinalSaveReady == episode_len_mean = "bound"

\* One pass of train's for loop: trainer.train() (ok: it returns; else the
\* TimeoutError of a reset / step passes through it), episode_len_mean is
\* bound, and the periodic save when it is due. "except Exception" re-raises.
TrainIteration(ok, failAt, torn) ==
    /\ train_pc = "loop"
    /\ NextIteration <= training_iterations
    /\ train_iteration' = NextIteration
    /\ IF ~ok
       THEN /\ failAt = "none"
            /\ ~torn
            /\ train_pc' = "raised"
            /\ train_error' = "TimeoutError"
            /\ UNCHANGED <<episode_len_mean, train_saved, ckptVars>>
       ELSE /\ episode_len_mean' = "bound"
            /\ IF SaveDue(NextIteration)
               THEN /\ SaveCheckpoint(NextIteration, failAt, torn)
                    /\ train_saved' = Append(train_saved, NextIteration)
                    /\ train_pc' = IF failAt = "none" THEN "loop" ELSE "raised"
                    /\ train_error' = IF failAt = "none" THEN "none" ELSE "OSError"
               ELSE /\ failAt = "none"
                    /\ ~torn
                    /\ UNCHANGED <<train_saved, train_pc, train_error, ckptVars>>
    /\ UNCHANGED <<restore_checkpoint, start_iteration, training_iterations,
                   checkpoint_freq, train_loaded>>
    /\ UNCHANGED <<bridgeVars, envVars, mainVars>>

\* train after its for loop: the final save for training_iterations.
TrainFinal(failAt, torn) ==
    /\ train_pc = "loop"
    /\ NextIteration > training_iterations
    /\ IF FinalSaveReady
       THEN /\ SaveCheckpoint(training_iterations, failAt, torn)
            /\ train_saved' = Append(train_saved, training_iterations)
            /\ train_pc' = IF failAt = "none" THEN "returned" ELSE "raised"
            /\ train_error' = IF failAt = "none" THEN "none" ELSE "OSError"
       ELSE /\ failAt = "none"
            /\ ~torn
            /\ train_pc' = "raised"
            /\ train_error' = "UnboundLocalError"
            /\ UNCHANGED <<train_saved, ckptVars>>
    /\ UNCHANGED <<restore_checkpoint, start_iteration, train_iteration,
                   training_iterations, checkpoint_freq, episode_len_mean,
                   train_loaded>>
    /\ UNCHANGED <<bridgeVars, envVars, mainVars>>

\* KeyboardInterrupt in train's try block, between two passes of the loop or
\* (during) in trainer.train() of the next pass: the handler saves a
\* checkpoint for the iteration bound last and train returns.
TrainInterrupt(during, failAt, torn) ==
    /\ train_pc = "loop"
    /\ during => NextIteration <= training_iterations
    /\ train_iteration' = IF during THEN NextIteration ELSE train_iteration
    /\ IF episode_len_mean = "bound"
       THEN /\ SaveCheckpoint(train_iteration', failAt, torn)
            /\ train_saved' = Append(train_saved, train_iteration')
            /\ train_pc' = IF failAt = "none" THEN "returned" ELSE "raised"
            /\ train_error' = IF failAt = "none" THEN "none" ELSE "OSError"
       ELSE /\ failAt = "none"
            /\ ~torn
            /\ train_pc' = "raised"
            /\ train_error' = "UnboundLocalError"
            /\ UNCHANGED <<train_saved, ckptVars>>
    /\ UNCHANGED <<restore_checkpoint, start_iteration, training_iterations,
                   checkpoint_freq, episode_len_mean, train_loaded>>
    /\ UNCHANGED <<bridgeVars, envVars, mainVars>>

\* ------------------------------------------------ run_server_and_training
\* The server task is created; the coroutine is about to test server.connected.
MainInit ==
    /\ main_pc = "polling"
    /\ server_task = "running"

\* As MainPoll, leaving the loop without a client.
MainPollOnce ==
    /\ main_pc = "polling"
    /\ main_pc' = "settling"
    /\ UNCHANGED server_task
    /\ UNCHANGED <<bridgeVars, ckptVars, envVars, trainVars>>

\* "while not server.connected: await asyncio.sleep(0.5)": the test that finds
\* a client connected ends the loop; "await asyncio.sleep(2)" follows.
MainPoll ==
    /\ main_pc = "polling"
    /\ connected
    /\ main_pc' = "settling"
    /\ UNCHANGED server_task
    /\ UNCHANGED <<bridgeVars, ckptVars, envVars, trainVars>>

\* The two seconds have passed: train is called next.
MainSettled ==
    /\ main_pc = "settling"
    /\ main_pc' = "train"
    /\ UNCHANGED server_task
    /\ UNCHANGED <<bridgeVars, ckptVars, envVars, trainVars>>

\* train has returned or raised: "except" prints and re-raises, "finally"
\* calls server_task.cancel() and awaits the task.
MainFinally ==
    /\ main_pc = "train"
    /\ train_pc \in {"returned", "raised"}
    /\ server_task' = "cancelling"
    /\ main_pc' = "awaiting"
    /\ UNCHANGED <<bridgeVars, ckptVars, envVars, trainVars>>

\* CancelledError is thrown into start_server at "await asyncio.Future()":
\* the task ends cancelled.
ServerCancelled ==
    /\ server_task = "cancelling"
    /\ server_task' = "cancelled"
    /\ UNCHANGED main_pc
    /\ UNCHANGED <<bridgeVars, ckptVars, envVars, trainVars>>

\* "await server_task" raises CancelledError, which is passed over: the
\* coroutine returns, or raises what train raised.
MainEnd ==
    /\ main_pc = "awaiting"
    /\ server_task = "cancelled"
    /\ main_pc' = IF train_pc = "raised" THEN "raised" ELSE "returned"
    /\ UNCHANGED server_task
    /\ UNCHANGED <<bridgeVars, ckptVars, envVars, trainVars>>

\* ----------------------------------------------------------- specifications
ServerNext ==
    \/ \E h \in Handles : HandleConnection(h)
    \/ \E h \in Handles : PeerSend(h)
    \/ \E h \in Handles : HandleMessage(h)
    \/ \E h \in Handles, how \in {"error", "exception", "clean"} : ConnectionEnds(h, how)
    \/ Tick

CallerNext(c) ==
    \/ \E episode \in 1..MaxEpisode :
          CallStart(c, "reset", episode) /\ UNCHANGED envVars
    \/ CallStart(c, "step", 0) /\ UNCHANGED envVars
    \/ CallSend(c)
    \/ CallReturn(c)
    \/ CallTimeout(c)

Init ==
    /\ BridgeInit /\ CkptInit(TRAIN_KEEP_LAST_N) /\ EnvInit(MaxStepLimit)
    /\ TrainInit /\ MainInit

\* The program: one loop issues the calls and awaits each before the next.
Next == ServerNext \/ CallerNext(Driver)

Spec == Init /\ [][Next]_vars

\* The server's interface: close() may be invoked (the program never does),
\* and besides the driver other coroutines may invoke reset_episode / step,
\* here while a call of the driver is unresolved.
OtherNext(c) ==
    \/ /\ call[Driver].pc # "idle"
       /\ CallStart(c, "step", 0)
       /\ UNCHANGED envVars
    \/ CallSend(c)
    \/ CallReturn(c)
    \/ CallTimeout(c)

NextConc ==
    \/ Next
    \/ Close
    \/ \E c \in Callers \ {Driver} : OtherNext(c)

SpecConc == Init /\ [][NextConc]_vars

\* The checkpoint manager, for every retention count.
InitCkpt ==
    /\ BridgeInit /\ EnvInit(MaxStepLimit) /\ TrainInit /\ MainInit
    /\ \E n \in 0..MaxKeep : CkptInit(n)

NextCkpt ==
    \/ \E iteration \in Iterations, failAt \in FailPoints, torn \in BOOLEAN :
          SaveCheckpoint(iteration, failAt, torn) /\ UNCHANGED trainVars
    \/ Restart /\ UNCHANGED trainVars

SpecCkpt == InitCkpt /\ [][NextCkpt]_vars

\* The manager train constructs, saved to and read from.
NextRead ==
    \/ NextCkpt
    \/ \E accessor \in Accessors, iteration \in {0} \cup Iterations :
          ReadAccessor(accessor, iteration)

SpecRead == Init /\ [][NextRead]_vars

\* Training through the environment: reset and step of MinecraftHideSeekEnv,
\* for every step limit.
InitEnv ==
    /\ BridgeInit /\ CkptInit(TRAIN_KEEP_LAST_N) /\ TrainInit /\ MainInit
    /\ \E n \in 1..MaxStepLimit : EnvInit(n)

EnvNext(c) ==
    \/ EnvReset(c)
    \/ EnvStep(c)
    \/ CallSend(c)
    \/ CallReturn(c)
    \/ CallTimeout(c)

NextEnv == ServerNext \/ EnvNext(Driver)

SpecEnv == InitEnv /\ [][NextEnv]_vars

\* train has raised: the TimeoutError of a reset / step of the environment
\* passes through trainer.train(), which train does not handle but re-raises.
TrainRaised == call[Driver].pc = "idle" /\ call[Driver].result = TimeoutError

\* The training run: the environment is reset and stepped by trainer.train()
\* until train raises. The event loop runs every coroutine that is ready and
\* every timer that is due.
TrainNext ==
    \/ ~TrainRaised /\ EnvReset(Driver)
    \/ ~TrainRaised /\ EnvStep(Driver)
    \/ CallSend(Driver)
    \/ CallReturn(Driver)
    \/ CallTimeout(Driver)

NextTrain == ServerNext \/ TrainNext

SpecTrain ==
    /\ InitEnv
    /\ [][NextTrain]_vars
    /\ WF_vars(Tick)
    /\ WF_vars(CallSend(Driver))
    /\ WF_vars(CallReturn(Driver))
    /\ WF_vars(CallTimeout(Driver))

\* Resuming: train is given no checkpoint, or the directory save_checkpoint
\* names for an iteration, the largest one NAME_WIDTH digits hold and the
\* next one included.
LargestNamed == 10 ^ NAME_WIDTH - 1

ResumeIterations ==
    (1..MaxResumeIter) \cup {LargestNamed \div 10, LargestNamed \div 10 + 1,
                             LargestNamed, LargestNamed + 1}

NextResume ==
    \/ \E i \in ResumeIterations : TrainStart(DirName(CheckpointName(i)))
    \/ TrainStart(NoPath)

SpecResume == Init /\ [][NextResume]_vars

\* Runs of train, one process after another on one checkpoint root: each is
\* given no checkpoint or a directory that holds a written trainer state.
Restorable ==
    {NoPath} \cup {DirName(name) : name \in {n \in Names : disk[n].state = "written"}}

NextRun ==
    \/ \E restore \in Restorable, total_episodes \in Iterations,
          train_batch_size \in 1..MaxBatch, freq \in 1..MaxFreq :
          TrainBegin(restore, total_episodes, train_batch_size, freq)
    \/ \E ok \in BOOLEAN, failAt \in FailPoints, torn \in BOOLEAN :
          TrainIteration(ok, failAt, torn)
    \/ \E failAt \in FailPoints, torn \in BOOLEAN : TrainFinal(failAt, torn)
    \/ \E during \in BOOLEAN, failAt \in FailPoints, torn \in BOOLEAN :
          TrainInterrupt(during, failAt, torn)

SpecRun == Init /\ [][NextRun]_vars

\* The connections of the server, the frames on them left aside:
\* handle_message touches neither connected nor websocket.
ConnectionNext ==
    \/ \E h \in Handles : HandleConnection(h)
    \/ \E h \in Handles, how \in {"error", "exception", "clean"} : ConnectionEnds(h, how)

\* run_server_and_training: the server accepts connections while its task
\* runs; train is called once, with no checkpoint or an existing one and one
\* episode to an iteration. A save that fails fails at its first write.
MainFailPoints == {"none", "state"}

MainNext ==
    \/ MainPoll
    \/ MainSettled
    \/ /\ main_pc = "train"
       /\ train_pc = "not_called"
       /\ \E restore \in Restorable, total_episodes \in Iterations,
             freq \in 1..MaxFreq :
             TrainBegin(restore, total_episodes, max_steps, freq)
    \/ \E ok \in BOOLEAN, failAt \in MainFailPoints :
          TrainIteration(ok, failAt, FALSE)
    \/ \E failAt \in MainFailPoints : TrainFinal(failAt, FALSE)
    \/ \E during \in BOOLEAN, failAt \in MainFailPoints :
          TrainInterrupt(during, failAt, FALSE)
    \/ MainFinally
    \/ ServerCancelled
    \/ MainEnd

NextMain ==
    \/ server_task # "cancelled" /\ ConnectionNext
    \/ MainNext

SpecMain == Init /\ [][NextMain]_vars

\* ------------------------------------------------------------ bridge claims
Outstanding(c) == call[c].pc \in {"sending", "waiting"}

Finished(c) == call[c].pc = "idle" /\ call[c].kind # "none"

\* A frame the wire protocol calls malformed: it does not parse, or it is an
\* observation without "agents" or without "episode_done".
Malformed(s) ==
    \/ ~s.json
    \/ s.type = "observation" /\ (s.agents = "absent" \/ ~s.episode_done)

\* C1: a reply to a call that ended with TimeoutError is never returned as the
\* result of a later call.
C1_NoStaleBleedThrough ==
    \A c \in Callers :
        (IsFrame(call[c].result) /\ ~Malformed(call[c].result.shape)) =>
            call[c].result.re \notin timedOut

\* C2: at most one reset_episode / step invocation is outstanding at any time.
C2_AtMostOneOutstanding ==
    Cardinality({c \in Callers : Outstanding(c)}) <= 1

\* C3: a call whose send finds no client connected does not enter the wait and
\* does not end with TimeoutError.
C3_NotConnectedFailsAtOnce ==
    \A c \in Callers :
        call[c].send = "not_connected" =>
            /\ call[c].pc # "waiting"
            /\ call[c].result # TimeoutError

\* C4: when the handler of the connection a call was sent on ends while the
\* call waits, the call is resolved at once, and not with TimeoutError.
C4_DisconnectResolvesCall ==
    \A c \in Callers :
        call[c].dropped =>
            /\ call[c].pc # "waiting"
            /\ call[c].result # TimeoutError

\* C5: a call sent to a connected client, with no observation handled since
\* its send began, ends with TimeoutError exactly when CALL_TIMEOUT seconds
\* have elapsed; no call waits past its deadline.
C5_TimeoutAtDeadline ==
    \A c \in Callers :
        /\ call[c].pc = "waiting" => call[c].elapsed <= CALL_TIMEOUT
        /\ (Finished(c) /\ call[c].send = "delivered" /\ stored = <<>>) =>
               /\ call[c].result = TimeoutError
               /\ call[c].elapsed = CALL_TIMEOUT

\* A step sent to a connected client has ended with TimeoutError at the
\* deadline, nothing having been stored meanwhile.
C5_Witness ==
    \E c \in Callers :
        /\ Finished(c)
        /\ call[c].kind = "step"
        /\ call[c].send = "delivered"
        /\ connected
        /\ stored = <<>>
        /\ call[c].result = TimeoutError
        /\ call[c].elapsed = CALL_TIMEOUT

WellFormed(f) == ~Malformed(f.shape)

\* C6: of the well-formed replies to a call that are handled before the call
\* returns, the call returns the first; later ones do not overwrite it.
C6_FirstReplyWins ==
    \A c \in Callers :
        LET Reply(f) == WellFormed(f) /\ f.re = call[c].id IN
        (Finished(c) /\ IsFrame(call[c].result) /\ Reply(call[c].result)) =>
            call[c].result = Head(SelectSeq(stored, Reply))

\* C7: a malformed frame is never put in the reply slot.
C7_MalformedNeverResolves ==
    IsFrame(pending_observation) => ~Malformed(pending_observation.shape)

\* -------------------------------------------------------- checkpoint claims
DirsOnDisk == {name \in Names : disk[name].state # "absent"}

SavedSet == {saved[k] : k \in DOMAIN saved}

\* The n largest elements of S.
TopN(S, n) == {i \in S : Cardinality({j \in S : j > i}) < n}

HistoryPaths == {checkpoint_history[k].path : k \in DOMAIN checkpoint_history}

\* C8: with keep_last_n = N > 0, once more than N checkpoints have been saved
\* (every save having returned, in the order of their iterations), the index
\* holds exactly N records and exactly N directories are on disk, those of the
\* N highest iterations saved.
C8_PruneKeepsNMostRecent ==
    (/\ manager = "ready"
     /\ keep_last_n > 0
     /\ Len(saved) = saves
     /\ \A k \in 1..(Len(saved) - 1) : saved[k] <= saved[k + 1]
     /\ Cardinality(SavedSet) > keep_last_n) =>
        /\ Len(checkpoint_history) = keep_last_n
        /\ Cardinality(DirsOnDisk) = keep_last_n
        /\ DirsOnDisk = {CheckpointName(i) : i \in TopN(SavedSet, keep_last_n)}

\* C9: right after a save_checkpoint that returned, the directories the index
\* names are exactly the directories on disk that returned saves created.
C9_IndexAgreesWithDisk ==
    (lastSave.iteration # 0 /\ lastSave.outcome = "none") =>
        HistoryPaths = {CheckpointName(i) : i \in SavedSet} \cap DirsOnDisk

\* C10: after a save_checkpoint that failed writing metadata.json or
\* checkpoint_index.json, the record of that save is neither in
\* checkpoint_history nor in the persisted index, and its directory exists.
C10_FailedSaveLeftUnindexed ==
    lastSave.outcome \in {"metadata", "index", "cleanup_index"} =>
        LET rec == [iteration |-> lastSave.iteration,
                    path |-> CheckpointName(lastSave.iteration),
                    timestamp |-> lastSave.timestamp]
        IN  /\ \A k \in DOMAIN checkpoint_history : checkpoint_history[k] # rec
            /\ index_file.kind = "json" =>
                   \A k \in DOMAIN index_file.checkpoints : index_file.checkpoints[k] # rec
            /\ disk[rec.path].state # "absent"

\* C11: the index file on disk is never a file cut short, and no
\* CheckpointManager fails to load it.
C11_IndexReplacedAtomically ==
    /\ index_file.kind # "corrupt"
    /\ manager # "failed"

\* The directories on disk whose metadata.json is complete.
ValidDirs == {name \in DirsOnDisk : disk[name].metadata.kind = "json"}

\* C12: a manager just constructed on a root left by saves that all returned,
\* no iteration saved twice, has as get_latest_checkpoint() the directory of
\* the highest iteration among those with a valid metadata.json (None when
\* there is none).
C12_LatestIsHighestValid ==
    (/\ manager = "ready"
     /\ lastSave = NoSave
     /\ Len(saved) = saves
     /\ Cardinality(SavedSet) = Len(saved)) =>
        get_latest_checkpoint =
            IF ValidDirs = {} THEN NoPath
            ELSE CHOOSE name \in ValidDirs :
                     \A other \in ValidDirs :
                         disk[other].metadata.iteration <= disk[name].metadata.iteration

\* C13: a manager just constructed on a root without checkpoint_index.json
\* but with checkpoint directories has a record for each of them, so its
\* history is not empty and get_latest_checkpoint() is not None.
C13_AbsentIndexIsReconstructed ==
    (/\ manager = "ready"
     /\ lastSave = NoSave
     /\ index_file.kind = "absent"
     /\ DirsOnDisk # {}) =>
        /\ DirsOnDisk \subseteq HistoryPaths
        /\ checkpoint_history # <<>>
        /\ get_latest_checkpoint # NoPath

\* The directories on disk that hold state but no metadata.json.
NoMetadataDirs == {name \in DirsOnDisk : disk[name].metadata.kind = "absent"}

\* C14: a directory without metadata.json appears neither in the list
\* select_checkpoint builds nor in the result of list_checkpoints.
C14_NoMetadataIsSkipped ==
    \A name \in NoMetadataDirs :
        /\ \A k \in DOMAIN select_checkpoint.entries :
               select_checkpoint.entries[k].path # name
        /\ \A k \in DOMAIN list_checkpoints.entries :
               list_checkpoints.entries[k].path # name

\* ------------------------------------------------------------- train claims
\* C15: the start iteration train derives from the directory name of the
\* checkpoint saved for iteration i is i + 1.
C15_ResumeAtNextIteration ==
    \A i \in ResumeIterations :
        restore_checkpoint = DirName(CheckpointName(i)) => start_iteration = i + 1

\* train has been given the checkpoint of the largest six-digit iteration and
\* numbers on from the next one.
C15_Witness ==
    /\ restore_checkpoint = DirName(CheckpointName(LargestNamed))
    /\ start_iteration = LargestNamed + 1

\* ------------------------------------------------------- environment claims
\* C16: a reset that returns an observation returns a frame handled since the
\* call began, unaltered; the step counter is then 0, episode_active is True
\* and the server's current_episode is the episode the reset command carried.
C16_ResetReturnsReply ==
    \A c \in Callers :
        (Finished(c) /\ call[c].kind = "reset" /\ IsFrame(call[c].result)) =>
            /\ \E k \in DOMAIN stored : stored[k] = call[c].result
            /\ EnvOutcome(c) = [observations |-> call[c].result]
            /\ current_step = 0
            /\ episode_active
            /\ current_episode = call[c].episode
            /\ current_episode = env_current_episode

\* A reset has returned the well-formed reply to its own command.
C16_Witness ==
    /\ Finished(Driver)
    /\ call[Driver].kind = "reset"
    /\ IsFrame(call[Driver].result)
    /\ WellFormed(call[Driver].result)
    /\ call[Driver].result.re = call[Driver].id
    /\ env_current_episode > 0

\* The step invocations of the environment since its last reset invocation.
StepsSinceReset ==
    Cardinality({k \in DOMAIN env_calls :
                    \A m \in k..Len(env_calls) : env_calls[m] = "step"})

C18_OneCommandNoRetry ==
    \A c \in Callers :
        /\ call[c].sent <= 1
        /\ call[c].id \in timedOut =>
               /\ call[c].pc = "idle"
               /\ EnvOutcome(c) = TimeoutError

\* A step whose command was delivered has timed out and raised.
C18_Witness ==
    /\ Finished(Driver)
    /\ call[Driver].kind = "step"
    /\ call[Driver].id \in timedOut
    /\ call[Driver].sent = 1
    /\ EnvOutcome(Driver) = TimeoutError

\* ------------------------------------------------------- connection claims
\* The handle accepted last (0: none yet).
LatestHandle ==
    IF \A h \in Handles : conn[h] = "none" THEN 0
    ELSE CHOOSE h \in Handles :
             /\ conn[h] # "none"
             /\ \A g \in Handles : g > h => conn[g] = "none"

\* C19: while the connection of a client that connected after another is
\* open and no client has connected since, connected is True and the handle
\* held is that client's.
C19_NewClientReplacesOld ==
    (LatestHandle > 1 /\ conn[LatestHandle] = "open") =>
        /\ connected
        /\ websocket = LatestHandle

\* C20: the server holds no handle of a connection that has ended, and is
\* not Connected once the connection of the handle it held has ended.
C20_ConnectionEndClears ==
    \A h \in Handles :
        conn[h] = "closed" =>
            /\ websocket # h
            /\ (LatestHandle = h => ~connected)

\* ------------------------------------------------------------ slot claims
\* C21: whenever no reset_episode / step invocation is outstanding, the reply
\* slot holds no well-formed observation.
C21_SlotEmptyWhenIdle ==
    (\A c \in Callers : ~Outstanding(c)) =>
        ~(IsFrame(pending_observation) /\ WellFormed(pending_observation))

\* No client is connected.
NoClient == \A h \in Handles : conn[h] # "open"

\* C22: a reset / step that waits while no client is connected, nothing
\* having been stored for it, ends with TimeoutError unless a client
\* connects; and once train has raised, no further call is issued.
C22_DisconnectEndsRun ==
    /\ (call[Driver].pc = "waiting" /\ ~call[Driver].woken /\ NoClient)
           ~> (TrainRaised \/ ~NoClient)
    /\ [][TrainRaised => calls' = calls]_vars

\* The client has gone, a step issued afterwards could not be sent and has
\* ended with TimeoutError.
C22_Witness ==
    /\ NoClient
    /\ \E h \in Handles : conn[h] = "closed"
    /\ TrainRaised
    /\ call[Driver].kind = "step"
    /\ call[Driver].send \in {"not_connected", "send_error"}

\* ------------------------------------------------ checkpoint order claims
\* The record and the metadata the last save_checkpoint call makes.
LastRecord ==
    [iteration |-> lastSave.iteration,
     path |-> CheckpointName(lastSave.iteration),
     timestamp |-> lastSave.timestamp]

LastMetadata ==
    [kind |-> "json", iteration |-> lastSave.iteration, timestamp |-> lastSave.timestamp]

\* The last save's record is in the index, in memory or on disk.
LastIndexed ==
    \/ \E k \in DOMAIN checkpoint_history : checkpoint_history[k] = LastRecord
    \/ /\ index_file.kind = "json"
       /\ \E k \in DOMAIN index_file.checkpoints : index_file.checkpoints[k] = LastRecord

\* C23: wherever a save_checkpoint call stopped, the metadata.json it wrote is
\* on disk only next to a completely written trainer state, and its record is
\* in the index, in memory or on disk, only if its metadata.json had been
\* written (it is there, unless the call's own cleanup removed the directory).
C23_StateThenMetadataThenIndex ==
    lastSave.iteration # 0 =>
        LET dir == disk[LastRecord.path] IN
        /\ dir.metadata = LastMetadata =>
               /\ lastSave.outcome # "state"
               /\ dir.state = "written"
        /\ LastIndexed => (dir.metadata = LastMetadata \/ dir = NoDir)

\* A save stopped between the state write and the metadata write: the state
\* is on disk, without metadata.json and without a record.
C23_Witness ==
    /\ lastSave.outcome = "metadata"
    /\ disk[LastRecord.path].state = "written"
    /\ disk[LastRecord.path].metadata = Absent
    /\ ~LastIndexed

\* The directories on disk that the persisted index has no record of.
Orphans ==
    {name \in DirsOnDisk :
        index_file.kind = "json" =>
            \A k \in DOMAIN index_file.checkpoints : index_file.checkpoints[k].path # name}

\* C24: a directory on disk without a record in the persisted index is not
\* offered by select_checkpoint and, in a manager constructed since, is not
\* returned by get_latest_checkpoint, get_checkpoint_by_iteration or
\* list_checkpoints.
C24_OrphanIgnoredByReads ==
    \A name \in Orphans :
        /\ \A k \in DOMAIN select_checkpoint.entries :
               select_checkpoint.entries[k].path # name
        /\ (manager = "ready" /\ lastSave = NoSave) =>
               /\ get_latest_checkpoint # name
               /\ \A n \in Iterations : get_checkpoint_by_iteration(n) # name
               /\ \A k \in DOMAIN list_checkpoints.entries :
                      list_checkpoints.entries[k].path # name

\* C25: with keep_last_n = 0 no step removes a checkpoint directory, and once
\* every save_checkpoint call has returned, checkpoint_history holds one
\* record per call, in the order of the calls.
C25_ZeroKeepsAll ==
    /\ [][keep_last_n = 0 => DirsOnDisk \subseteq DirsOnDisk']_vars
    /\ [](( /\ keep_last_n = 0
            /\ manager = "ready"
            /\ Len(saved) = saves) =>
              /\ Len(checkpoint_history) = saves
              /\ \A k \in DOMAIN saved : checkpoint_history[k].iteration = saved[k]
              /\ DirsOnDisk = {CheckpointName(i) : i \in SavedSet})

\* With keep_last_n = 0, save_checkpoint has returned for as many distinct
\* iterations as the bound allows and every directory is there.
C25_Witness ==
    /\ keep_last_n = 0
    /\ Len(saved) = MaxSaves
    /\ Len(checkpoint_history) = MaxSaves
    /\ Cardinality(DirsOnDisk) = MaxSaves

\* C26: a call of get_latest_checkpoint, get_checkpoint_by_iteration or
\* list_checkpoints changes neither checkpoint_history, nor the index file,
\* nor any directory; get_checkpoint_by_iteration(n) returns None exactly
\* when no record has iteration n, and get_latest_checkpoint returns None
\* exactly when checkpoint_history is empty.
C26_AccessorsArePureReads ==
    [][(returned' # returned /\ returned' # NoRead) =>
          /\ UNCHANGED <<checkpoint_history, index_file, disk, keep_last_n>>
          /\ returned'.accessor = "get_latest_checkpoint" =>
                 (returned'.value.path = NoPath <=> checkpoint_history = <<>>)
          /\ returned'.accessor = "get_checkpoint_by_iteration" =>
                 (returned'.value.path = NoPath <=>
                     \A k \in DOMAIN checkpoint_history :
                         checkpoint_history[k].iteration # returned'.iteration)]_vars

\* get_checkpoint_by_iteration has returned None for an iteration without a
\* record while the index holds records of others.
C26_Witness ==
    /\ returned.accessor = "get_checkpoint_by_iteration"
    /\ returned.value.path = NoPath
    /\ checkpoint_history # <<>>
    /\ get_latest_checkpoint # NoPath

\* C27: checkpoint_history is in strictly increasing order of iteration.
C27_HistoryStrictlyIncreasing ==
    \A k \in 1..(Len(checkpoint_history) - 1) :
        checkpoint_history[k].iteration < checkpoint_history[k + 1].iteration

\* ---------------------------------------------------------- naming claims
\* C29: of the directory names of two iterations i < j, the name for i sorts
\* before the name for j (train resumed from the one, then from the other:
\* start_iteration is the iteration plus one).
C29_NameOrderIsIterationOrder ==
    [][(/\ restore_checkpoint # NoPath
        /\ restore_checkpoint' # NoPath
        /\ start_iteration < start_iteration') =>
            StrLess(restore_checkpoint, restore_checkpoint')]_vars

\* ------------------------------------------------------ connection claims 2
\* C28: connected is True exactly when a handle is held.
C28_ConnectedIffHandle ==
    connected <=> websocket # 0

\* C30: when the handler of a connection that is not the one held ends,
\* connected and websocket are left as they are.
C30_SupersededEndIsHarmless ==
    [][\A h \in Handles :
          (/\ conn[h] = "open"
           /\ conn'[h] = "closed"
           /\ websocket # 0
           /\ websocket # h
           /\ conn[websocket] = "open") =>
              UNCHANGED <<connected, websocket>>]_vars

\* ------------------------------------------------------ checkpoint claims 2
\* C31: right after a save_checkpoint that returned, the directory it
\* returned is on disk and is the one get_latest_checkpoint() names.
C31_SaveKeepsWhatItWrote ==
    (lastSave.iteration # 0 /\ lastSave.outcome = "none") =>
        /\ disk[LastRecord.path].state # "absent"
        /\ get_latest_checkpoint = LastRecord.path

\* ------------------------------------------------------------ slot claims 2
\* C32: every payload a call returns was stored by handle_message after that
\* call cleared the slot at its start.
C32_ReturnedWasStoredSinceClear ==
    \A c \in Callers :
        IsFrame(call[c].result) =>
            \E k \in DOMAIN stored : stored[k] = call[c].result

\* Two frames were sent on the one connection and both were taken from it;
\* the call has returned the second, its reply, the only one stored since it
\* cleared the slot.
C32_Witness ==
    /\ Finished(Driver)
    /\ frames > 1
    /\ \A h \in Handles : conn[h] # "none" => (conn[h] = "open" /\ inbox[h] = <<>>)
    /\ IsFrame(call[Driver].result)
    /\ call[Driver].result.n = frames
    /\ call[Driver].result.re = call[Driver].id
    /\ stored = <<call[Driver].result>>

\* C34: when a save_checkpoint has returned, the checkpoints list in
\* checkpoint_index.json is checkpoint_history, and a CheckpointManager
\* constructed next on the same root loads that list, record for record.
C34_IndexRoundTrip ==
    [][/\ (lastSave'.iteration # 0 /\ lastSave'.outcome = "none") =>
             /\ index_file'.kind = "json"
             /\ index_file'.checkpoints = checkpoint_history'
       /\ (lastSave.iteration # 0 /\ lastSave.outcome = "none" /\ lastSave' = NoSave) =>
             /\ manager' = "ready"
             /\ checkpoint_history' = checkpoint_history
             /\ checkpoint_history' = index_file.checkpoints]_vars

\* Every save returned, the cleanup has trimmed the history, and a manager
\* constructed since holds the trimmed list of the index file.
C34_Witness ==
    /\ lastSave = NoSave
    /\ saves > 1
    /\ Len(saved) = saves
    /\ manager = "ready"
    /\ checkpoint_history # <<>>
    /\ Len(checkpoint_history) < Len(saved)
    /\ index_file.kind = "json"
    /\ index_file.checkpoints = checkpoint_history

\* ----------------------------------------------------- environment claims 2
\* The reset invocations of the environment.
ResetsInvoked == Cardinality({k \in DOMAIN env_calls : env_calls[k] = "reset"})

\* C35: from its start to its TimeoutError a call leaves the server's
\* current_episode and episode_active as they were, while the environment has
\* counted the invocation: after a failed step current_step counts it, after
\* a failed reset current_episode counts it and current_step is 0.
C35_TimeoutLeavesServerNotEnv ==
    [][/\ (call'[Driver].pc # "idle") =>
             UNCHANGED <<current_episode, episode_active>>
       /\ (call[Driver].pc # "idle" /\ call'[Driver].pc = "idle"
              /\ call'[Driver].result = TimeoutError) =>
             /\ UNCHANGED <<current_episode, episode_active>>
             /\ UNCHANGED envVars
             /\ env_calls'[Len(env_calls')] = call'[Driver].kind
             /\ env_current_episode' = ResetsInvoked'
             /\ current_step' = StepsSinceReset'
             /\ call'[Driver].kind = "reset" => current_step' = 0
             /\ call'[Driver].kind = "step" => current_step' > 0]_vars

\* A reset returned and marked episode 1 active; the step after it has timed
\* out, counted by the environment.
C35_Witness ==
    /\ Finished(Driver)
    /\ call[Driver].result = TimeoutError
    /\ env_calls = <<"reset", "step">>
    /\ current_step = 1
    /\ env_current_episode = 1
    /\ episode_active
    /\ current_episode = 1

\* ------------------------------------------------------------ train claims 2
\* C33: in one run of train no iteration number is passed to save_checkpoint
\* twice, and a resumed run passes none that the index it loaded records.
C33_OneSavePerIteration ==
    /\ \A j, k \in DOMAIN train_saved : j # k => train_saved[j] # train_saved[k]
    /\ restore_checkpoint # NoPath =>
           \A k \in DOMAIN train_saved : train_saved[k] \notin train_loaded

\* C37: train resumed from a checkpoint of an iteration at or past
\* training_iterations runs no pass of its loop and returns after the final
\* save, raising nothing.
C37_ResumePastEndCompletes ==
    (/\ restore_checkpoint # NoPath
     /\ training_iterations > 0
     /\ start_iteration > training_iterations
     /\ train_pc # "loop") =>
        /\ train_iteration = 0
        /\ train_pc = "returned"
        /\ train_error = "none"

\* --------------------------------------------------------------- main claims
\* C36: train is called only after a client has connected (connected was
\* True in an earlier state), and once train has returned or raised the
\* server task is cancelled: the coroutine ends only with the task cancelled.
C36_TrainAfterConnectThenCancel ==
    [][/\ (train_pc = "not_called" /\ train_pc' # "not_called") =>
             /\ main_pc = "train"
             /\ \E h \in Handles : conn[h] # "none"
       /\ (main_pc = "train" /\ main_pc' # "train") =>
             /\ train_pc \in {"returned", "raised"}
             /\ server_task' = "cancelling"
       /\ (train_pc' \in {"returned", "raised"} /\ main_pc' # "train") =>
             server_task' # "running"
       /\ main_pc' \in {"returned", "raised"} =>
             /\ server_task' = "cancelled"
             /\ (main_pc' = "raised") = (train_pc' = "raised")]_vars

\* The client that connected has gone; train raised at its first iteration
\* and the coroutine has ended, raising, with the server task cancelled.
C36_Witness ==
    /\ main_pc = "raised"
    /\ server_task = "cancelled"
    /\ train_error = "TimeoutError"
    /\ train_iteration = 1
    /\ ~connected
    /\ conn[1] = "closed"

====
